---- MODULE Spec2Model ----
(***************************************************************************)
(* SLR-Automation: two scripts over a folder of bibliography files.        *)
(*   - the deduplication script (src/main.py)                              *)
(*   - the inclusion / exclusion script (src/unnamed/part_000)             *)
(* Strings are modelled as sequences of one-character strings, so that     *)
(* lower(), strip(), re.sub, int() and the substring tests are computed    *)
(* as the library computes them.                                           *)
(***************************************************************************)
EXTENDS Integers, Sequences, FiniteSets, TLC

\* ------------------------------------------------------------------------
\* Bounds of the model
\* ------------------------------------------------------------------------
\* Files in the selected folder.
MaxFiles == 2
\* Rows (CSV) or entries (BibTeX) over all the files of a run of the
\* deduplication script.
MaxRecords == 3
\* Rows (CSV) or entries (BibTeX) over all the files of a run of the filter
\* script.
MaxRows == 2

\* ------------------------------------------------------------------------
\* Strings
\* ------------------------------------------------------------------------
Upper == <<"A", "B", "C", "D", "E", "F", "G", "H", "I", "J", "K", "L", "M",
           "N", "O", "P", "Q", "R", "S", "T", "U", "V", "W", "X", "Y", "Z">>
Lower == <<"a", "b", "c", "d", "e", "f", "g", "h", "i", "j", "k", "l", "m",
           "n", "o", "p", "q", "r", "s", "t", "u", "v", "w", "x", "y", "z">>

\* The characters \s matches and str.strip() removes.
Whitespace == {" ", "\t", "\n"}

\* str.lower() on one character.
LowerChar(c) ==
    IF \E i \in 1..Len(Upper) : Upper[i] = c
    THEN Lower[CHOOSE i \in 1..Len(Upper) : Upper[i] = c]
    ELSE c

\* str.lower()
LowerStr(s) == [i \in 1..Len(s) |-> LowerChar(s[i])]

RECURSIVE LStrip(_)
LStrip(s) ==
    IF s = <<>> THEN <<>>
    ELSE IF Head(s) \in Whitespace THEN LStrip(Tail(s)) ELSE s

RECURSIVE RStrip(_)
RStrip(s) ==
    IF s = <<>> THEN <<>>
    ELSE IF s[Len(s)] \in Whitespace THEN RStrip(SubSeq(s, 1, Len(s) - 1)) ELSE s

\* str.strip()
Strip(s) == RStrip(LStrip(s))

\* re.sub(r'\s+', ' ', s): every maximal run of whitespace becomes one space.
RECURSIVE CollapseWs(_)
CollapseWs(s) ==
    IF s = <<>> THEN <<>>
    ELSE IF Head(s) \in Whitespace
         THEN <<" ">> \o CollapseWs(LStrip(s))
         ELSE <<Head(s)>> \o CollapseWs(Tail(s))

\* str.replace(" ", "")
RECURSIVE RemoveSpaces(_)
RemoveSpaces(s) ==
    IF s = <<>> THEN <<>>
    ELSE IF Head(s) = " " THEN RemoveSpaces(Tail(s))
         ELSE <<Head(s)>> \o RemoveSpaces(Tail(s))

\* Python's `t in s` on strings.
Contains(s, t) ==
    \E i \in 1..(Len(s) - Len(t) + 1) : SubSeq(s, i, i + Len(t) - 1) = t

\* str.startswith
StartsWith(s, t) == Len(s) >= Len(t) /\ SubSeq(s, 1, Len(t)) = t

\* ------------------------------------------------------------------------
\* Values of a cell or field: a string, pandas' NaN (an empty CSV cell), or
\* None.
\* ------------------------------------------------------------------------
StrV(s) == [k |-> "str", s |-> s]
NaN == [k |-> "nan", s |-> <<>>]
None == [k |-> "none", s |-> <<>>]

\* str(value)
Str(v) ==
    CASE v.k = "str" -> v.s
      [] v.k = "nan" -> <<"n", "a", "n">>
      [] v.k = "none" -> <<"N", "o", "n", "e">>

\* pd.isna / pd.notna
IsNa(v) == v.k \in {"nan", "none"}

\* dict.get(key, '') and Series.get(key, ''): the default when the key or
\* the column is absent.
Get(entry, key) == IF key \in DOMAIN entry THEN entry[key] ELSE StrV(<<>>)

\* ------------------------------------------------------------------------
\* Deduplication script (src/main.py)
\* ------------------------------------------------------------------------
F_title == <<"t", "i", "t", "l", "e">>
F_author == <<"a", "u", "t", "h", "o", "r">>
F_publication == <<"p", "u", "b", "l", "i", "c", "a", "t", "i", "o", "n">>
F_doi == <<"d", "o", "i">>
F_url == <<"u", "r", "l">>

REQUIRED_FIELDS == <<F_title, F_author, F_publication, F_doi, F_url>>

\* normalize_columns(df): the new name of each column, in column order.
normalize_columns(columns) ==
    [i \in 1..Len(columns) |->
        LET cleaned == RemoveSpaces(LowerStr(columns[i]))
        IN IF \E j \in 1..Len(REQUIRED_FIELDS) : REQUIRED_FIELDS[j] = cleaned
           THEN cleaned ELSE columns[i]]

normalize_text(text) == CollapseWs(Strip(LowerStr(Str(text))))

get_unique_key(entry, use_only_doi) ==
    IF use_only_doi
    THEN <<normalize_text(Get(entry, F_doi))>>
    ELSE <<normalize_text(Get(entry, F_title)),
           normalize_text(Get(entry, F_author)),
           normalize_text(Get(entry, F_publication)),
           normalize_text(Get(entry, F_doi)),
           normalize_text(Get(entry, F_url))>>

\* The check of line 68: a chain of `and` over non-empty string literals is
\* its last operand, so only the 'url' column is tested.
MissingRequiredColumns(columns) ==
    ~ (\E i \in 1..Len(columns) : columns[i] = F_url)

\* Column headers of the CSV files of the model.
CsvHeaders ==
    { << <<"T", "i", "t", "l", "e">>, <<"A", "u", "t", "h", "o", "r", " ">>,
         <<"P", "u", "b", "l", "i", "c", "a", "t", "i", "o", "n">>,
         <<"D", "O", "I">>, <<"U", " ", "R", "L">> >>,
      << <<"t", "i", "t", "l", "e">>, <<"D", "O", "I">>,
         <<"u", "r", "l">>, <<"N", "o", "t", "e">> >>,
      << <<"T", "i", "t", "l", "e">>, <<"D", "O", "I">> >> }

\* Cell and field contents of the model.
TitleStrings ==
    { <<"O", "n", " ", " ", "X">>, <<" ", "o", "n", "\t", "x">> }
AuthorString == <<"L", "i">>
DoiStrings == { <<"1", "0", ".", "1", "/", "x">> }
OtherString == <<"p">>

\* What a CSV cell under a column can hold: text, or nothing (NaN).
CsvCells(strings) == {StrV(s) : s \in strings} \cup {NaN}
\* What a BibTeX field can hold: text, possibly empty.
BibFields(strings) == {StrV(s) : s \in strings} \cup {StrV(<<>>)}

\* A CSV row of a frame with the given (renamed) columns.
CsvRow(columns, t, d) ==
    [c \in {columns[i] : i \in 1..Len(columns)} |->
        CASE c = F_title -> t
          [] c = F_author -> StrV(AuthorString)
          [] c = F_doi -> d
          [] OTHER -> StrV(OtherString)]

\* A BibTeX entry: the fields in `present`, among the five of the key.
BibEntry(present, t, d) ==
    [c \in present |->
        CASE c = F_title -> t
          [] c = F_author -> StrV(AuthorString)
          [] c = F_doi -> d
          [] OTHER -> StrV(OtherString)]

BibFieldSets ==
    { {F_title, F_author, F_publication, F_doi, F_url},
      {F_author, F_publication, F_url} }

\* ------------------------------------------------------------------------
\* Inclusion / exclusion script (src/unnamed/part_000)
\* ------------------------------------------------------------------------
F_year == <<"y", "e", "a", "r">>
F_type == <<"t", "y", "p", "e">>
S_publicationtype ==
    <<"p", "u", "b", "l", "i", "c", "a", "t", "i", "o", "n", "t", "y", "p", "e">>
S_http == <<"h", "t", "t", "p", ":", "/", "/">>
S_https == <<"h", "t", "t", "p", "s", ":", "/", "/">>
S_journal == <<"j", "o", "u", "r", "n", "a", "l">>
S_article == <<"a", "r", "t", "i", "c", "l", "e">>
S_conference == <<"c", "o", "n", "f", "e", "r", "e", "n", "c", "e">>
S_proceeding == <<"p", "r", "o", "c", "e", "e", "d", "i", "n", "g">>
S_journal_article ==
    <<"j", "o", "u", "r", "n", "a", "l", "-", "a", "r", "t", "i", "c", "l", "e">>
S_proceedings_article ==
    <<"p", "r", "o", "c", "e", "e", "d", "i", "n", "g", "s", "-",
      "a", "r", "t", "i", "c", "l", "e">>
S_conference_paper ==
    <<"c", "o", "n", "f", "e", "r", "e", "n", "c", "e", "-",
      "p", "a", "p", "e", "r">>
S_unknown == <<"u", "n", "k", "n", "o", "w", "n">>

Digits == <<"0", "1", "2", "3", "4", "5", "6", "7", "8", "9">>
IsDigit(c) == \E i \in 1..Len(Digits) : Digits[i] = c
DigitVal(c) == (CHOOSE i \in 1..Len(Digits) : Digits[i] = c) - 1
AllDigits(s) == s # <<>> /\ \A i \in 1..Len(s) : IsDigit(s[i])

RECURSIVE DigitsVal(_)
DigitsVal(s) ==
    IF s = <<>> THEN 0
    ELSE DigitsVal(SubSeq(s, 1, Len(s) - 1)) * 10 + DigitVal(s[Len(s)])

RECURSIVE Pow10(_)
Pow10(n) == IF n = 0 THEN 1 ELSE 10 * Pow10(n - 1)

\* int(s) of a string: surrounding whitespace and one sign are accepted, then
\* only digits. ok = FALSE is ValueError.
ParseInt(s) ==
    LET t == Strip(s)
        signed == t # <<>> /\ t[1] \in {"+", "-"}
        body == IF signed THEN Tail(t) ELSE t
    IN IF AllDigits(body)
       THEN [ok |-> TRUE,
             val |-> IF signed /\ t[1] = "-" THEN 0 - DigitsVal(body)
                     ELSE DigitsVal(body)]
       ELSE [ok |-> FALSE, val |-> 0]

\* The position of the first "." of s, or 0.
DotAt(s) ==
    IF \E i \in 1..Len(s) : s[i] = "."
    THEN CHOOSE i \in 1..Len(s) : s[i] = "." /\ \A j \in 1..(i - 1) : s[j] # "."
    ELSE 0

\* pd.to_numeric(column, errors='coerce') on one cell: the number num / den,
\* or NaN (ok = FALSE) for an empty cell and for text that is no number.
ToNumeric(cell) ==
    LET s == Str(cell)
        dot == DotAt(s)
        whole == IF dot = 0 THEN s ELSE SubSeq(s, 1, dot - 1)
        frac == IF dot = 0 THEN <<>> ELSE SubSeq(s, dot + 1, Len(s))
    IN IF IsNa(cell) THEN [ok |-> FALSE, num |-> 0, den |-> 1]
       ELSE IF AllDigits(whole) /\ (dot = 0 \/ AllDigits(frac))
       THEN [ok |-> TRUE, num |-> DigitsVal(whole \o frac), den |-> Pow10(Len(frac))]
       ELSE [ok |-> FALSE, num |-> 0, den |-> 1]

\* Line 119: (df[year_col] >= start_year) & (df[year_col] <= current_year).
\* A comparison with NaN is False.
CsvYearInRange(n, lo, hi) ==
    n.ok /\ n.num >= lo * n.den /\ n.num <= hi * n.den

\* Line 179: start_year <= year <= current_year.
BibYearInRange(year, lo, hi) == lo <= year /\ year <= hi

\* normalize_columns(df) of the filter script: the cleaned name of a column.
CleanColumn(col) == RemoveSpaces(Strip(LowerStr(col)))

\* Lines 103-109: which of the three columns a cleaned name selects.
ColumnKind(key) ==
    IF Contains(key, F_year) THEN "year"
    ELSE IF Contains(key, F_doi) THEN "doi"
    ELSE IF Contains(key, F_type) \/ Contains(key, S_publicationtype) THEN "type"
    ELSE "none"

\* Lines 99-109: the last column of the kind, or None (here the empty name).
FindColumn(header, kind) ==
    LET hits == {i \in 1..Len(header) : ColumnKind(CleanColumn(header[i])) = kind}
    IN IF hits = {} THEN <<>>
       ELSE header[CHOOSE i \in hits : \A j \in hits : j <= i]

\* urlparse(doi).path.lstrip('/') for scheme://host/path
RECURSIVE LStripSlash(_)
LStripSlash(s) ==
    IF s # <<>> /\ Head(s) = "/" THEN LStripSlash(Tail(s)) ELSE s

RECURSIVE DropHost(_)
DropHost(s) ==
    IF s = <<>> \/ Head(s) = "/" THEN s ELSE DropHost(Tail(s))

\* Lines 55-58: the DOI with a leading resolver URL removed.
CleanDoi(doi) ==
    IF StartsWith(doi, S_http)
    THEN LStripSlash(DropHost(SubSeq(doi, Len(S_http) + 1, Len(doi))))
    ELSE IF StartsWith(doi, S_https)
    THEN LStripSlash(DropHost(SubSeq(doi, Len(S_https) + 1, Len(doi))))
    ELSE doi

\* What the request of line 62 can come back with.
\*   request_exception : requests.get or raise_for_status raises
\*   not_json          : response.json() raises ValueError
\*   no_message        : a JSON object without 'message'
\*   no_type           : 'message' is an object without 'type'
\*   type_null         : 'type' is null
\*   type              : 'type' is the string t
CrossrefTypes ==
    { S_journal_article,
      <<"P", "r", "o", "c", "e", "e", "d", "i", "n", "g", "s", "-",
        "A", "r", "t", "i", "c", "l", "e">>,
      <<"b", "o", "o", "k", "-", "c", "h", "a", "p", "t", "e", "r">> }

Responses ==
    { [k |-> x, t |-> <<>>] :
        x \in {"request_exception", "not_json", "no_message", "no_type",
               "type_null"} }
    \cup { [k |-> "type", t |-> t] : t \in CrossrefTypes }

\* Lines 69-75: the category of a Crossref type, already lowercased.
MapType(pub_type) ==
    IF pub_type \in {S_journal_article, S_article} THEN "Original Research"
    ELSE IF pub_type \in {S_proceedings_article, S_conference_paper, S_conference}
    THEN "Conference Paper"
    ELSE "Other"

\* get_publication_type(doi), given what the request comes back with.
\* raised = TRUE: an exception that neither except clause catches leaves the
\* function (AttributeError at None.lower()).
get_publication_type(doi, resp) ==
    IF doi = <<>> THEN [raised |-> FALSE, value |-> "Unknown"]
    ELSE CASE resp.k = "request_exception" -> [raised |-> FALSE, value |-> "Unknown"]
           [] resp.k = "not_json" -> [raised |-> FALSE, value |-> "Unknown"]
           [] resp.k = "no_message" -> [raised |-> FALSE, value |-> "Unknown"]
           [] resp.k = "no_type" ->
                [raised |-> FALSE, value |-> MapType(LowerStr(S_unknown))]
           [] resp.k = "type" ->
                [raised |-> FALSE, value |-> MapType(LowerStr(resp.t))]
           [] resp.k = "type_null" -> [raised |-> TRUE, value |-> "-"]

\* Mutant of FallbackType: the elif of lines 135-136 is lost.
FallbackJournalOnly(pub_type, type_str) ==
    IF Contains(type_str, S_journal) \/ Contains(type_str, S_article)
    THEN "Original Research"
    ELSE pub_type

\* Lines 131-136: the type column's text, when the DOI gave nothing.
FallbackType(pub_type, type_str) ==
    IF Contains(type_str, S_journal) \/ Contains(type_str, S_article)
    THEN "Original Research"
    ELSE IF Contains(type_str, S_conference) \/ Contains(type_str, S_proceeding)
    THEN "Conference Paper"
    ELSE pub_type

\* Lines 140 and 187.
Included(pub_type) == pub_type \in {"Original Research", "Conference Paper"}

\* Mutant of NoDoiLabel: the CSV path's default category.
NoDoiAsUnknown == "Unknown"

\* Line 194: the category of a BibTeX entry without a DOI.
NoDoiLabel == "No DOI"

\* Mutant of Tally: `= 1` for `+= 1`.
TallySet(types, key) ==
    IF key \in DOMAIN types
    THEN [types EXCEPT ![key] = 1]
    ELSE types @@ (key :> 1)

\* publication_types[key] += 1 on a defaultdict(int)
Tally(types, key) ==
    IF key \in DOMAIN types
    THEN [types EXCEPT ![key] = @ + 1]
    ELSE types @@ (key :> 1)

\* Mutant of AfterLookup: the sleep is lost.
AfterLookupNoSleep(ftype) == IF ftype = "csv" THEN "classify" ELSE "rows"

\* Where control goes once get_publication_type has returned: the
\* time.sleep(0.5) of lines 128 and 191.
AfterLookup(ftype) == "sleep"

\* Inputs of the filter script in the model.
StartYears == {2020}
CurrentYears == {2021}

FilterHeaders ==
    { << <<"T", "i", "t", "l", "e">>, <<"Y", "e", "a", "r">>, <<"D", "O", "I">>,
         <<"D", "o", "c", "u", "m", "e", "n", "t", " ", "T", "y", "p", "e">> >>,
      << <<"P", "u", "b", "l", "i", "c", "a", "t", "i", "o", "n", " ",
           "Y", "e", "a", "r">>, <<"T", "y", "p", "e">> >>,
      << <<"T", "i", "t", "l", "e">>, <<"D", "O", "I">> >> }

CsvYearStrings ==
    { <<"2", "0", "1", "9">>, <<"2", "0", "2", "0">>, <<"2", "0", "2", "1">>,
      <<"2", "0", "2", "2">>, <<"2", "0", "2", "0", ".", "5">> }
BibYearStrings ==
    { <<"2", "0", "1", "9">>, <<"2", "0", "2", "0">>, <<" ", "2", "0", "2", "1", " ">>,
      <<"2", "0", "2", "2">>, <<"2", "0", "2", "0", ".", "5">> }
CsvDoiStrings == { <<"1", "0", ".", "1", "/", "x">> }
BibDoiStrings ==
    { <<"h", "t", "t", "p", "s", ":", "/", "/", "d", "o", "i", ".", "o", "r", "g",
        "/", "1", "0", ".", "1", "/", "y">> }
S_ConferenceProceedings2022 ==
    <<"C", "o", "n", "f", "e", "r", "e", "n", "c", "e", " ", "P", "r", "o", "c",
      "e", "e", "d", "i", "n", "g", "s", " ", "2", "0", "2", "2">>
CsvTypeStrings ==
    { S_ConferenceProceedings2022,
      <<"J", "o", "u", "r", "n", "a", "l", " ", "A", "r", "t", "i", "c", "l", "e">>,
      <<"B", "o", "o", "k">> }
BibTypeStrings == { S_ConferenceProceedings2022 }

\* A field that the BibTeX entry does not have.
Absent == [k |-> "absent", s |-> <<>>]
BibOptional(strings) == {StrV(s) : s \in strings} \cup {Absent}

\* A BibTeX entry with the fields that are not Absent.
FilterBibEntryOf(y, d, t) ==
    LET all == (F_year :> y) @@ (F_doi :> d) @@ (F_type :> t)
    IN [c \in {f \in DOMAIN all : all[f] # Absent} |-> all[c]]

VARIABLES
    \* filter script
    f_type,             \* "csv" or "bib"
    f_nfiles,
    start_year,
    current_year,
    f_pc,               \* "files", "rows", "request", "sleep", "classify",
                        \* "write", "done", "nomatch", "crashed"
    f_file,
    year_col, doi_col, type_col,
    f_rows_left,
    total_refs,
    cur,                \* the row / entry of the current iteration
    request,            \* requests in flight: the DOIs asked for
    final_filtered,     \* `final_filtered` (CSV) and `filtered` (BibTeX)
    filtered_entries,
    file_stats,
    total_found,
    total_filtered,
    publication_types,
    output,             \* what is written to "Included File.*"
    \* history
    files_read,         \* [file, total] of every file whose records were iterated
    lookups,            \* calls of get_publication_type
    since_sleep,        \* calls of get_publication_type since the last sleep
    n_in_range          \* rows / entries whose year was in range

fvars == <<f_type, f_nfiles, start_year, current_year, f_pc, f_file, year_col,
           doi_col, type_col, f_rows_left, total_refs, cur, request,
           final_filtered, filtered_entries, file_stats, total_found,
           total_filtered, publication_types, output, files_read, lookups,
           since_sleep, n_in_range>>

VARIABLES
    \* dedup script
    d_type,             \* "csv" or "bib": which of csv_files / bib_files is non-empty
    d_nfiles,           \* number of files of that type
    d_pc,               \* "files", "rows", "summary", "done", "exited"
    d_file,             \* index of the file being read (0 before the first)
    d_columns,          \* df.columns after normalize_columns (CSV)
    d_rows_left,        \* rows / entries of the current file not yet iterated
    file_total,
    unique_entries,     \* insertion-ordered dict: sequence of [key, value]
    duplicate_count,
    total_count,
    file_entry_counts,  \* sequence of [file, count]
    output_rows,        \* what is written to deduplicated_output.*
    ingested            \* history: every row / entry iterated with the key
                        \* computed for it, in order

dvars == <<d_type, d_nfiles, d_pc, d_file, d_columns, d_rows_left, file_total,
           unique_entries, duplicate_count, total_count, file_entry_counts,
           output_rows, ingested>>

vars == <<dvars, fvars>>

\* `key in unique_entries`
HasKey(entries, key) == \E i \in 1..Len(entries) : entries[i].key = key

\* unique_entries[key]
Lookup(entries, key) ==
    entries[CHOOSE i \in 1..Len(entries) : entries[i].key = key].value

\* Mutant of StoreIfAbsent: the store is done whether or not the key is there.
StoreAlways(entries, key, row) ==
    IF ~ HasKey(entries, key)
    THEN Append(entries, [key |-> key, value |-> row])
    ELSE [i \in 1..Len(entries) |->
            IF entries[i].key = key THEN [key |-> key, value |-> row]
            ELSE entries[i]]

\* Lines 77-78 / 100-101: the dict after the membership test and the store.
StoreIfAbsent(entries, key, row) ==
    IF ~ HasKey(entries, key)
    THEN Append(entries, [key |-> key, value |-> row])
    ELSE entries

\* Mutant of CountIfPresent: the else branch is lost.
CountNever(count, entries, key) == count

\* Lines 79-80 / 102-103: the duplicate counter after the membership test.
CountIfPresent(count, entries, key) ==
    IF ~ HasKey(entries, key) THEN count ELSE count + 1

\* The body of the loops of lines 73-80 and 96-103 for one row / entry.
Ingest(row) ==
    LET key == get_unique_key(row, FALSE)
    IN /\ total_count' = total_count + 1
       /\ file_total' = file_total + 1
       /\ unique_entries' = StoreIfAbsent(unique_entries, key, row)
       /\ duplicate_count' = CountIfPresent(duplicate_count, unique_entries, key)
       /\ ingested' = Append(ingested, [row |-> row, key |-> key])

\* The row / entry variable before the first iteration.
NoCur ==
    [file |-> 0, row |-> 0, entry |-> <<>>, in_range |-> FALSE,
     pub_type |-> "-", outcome |-> "-", fallback |-> FALSE, tallied |-> "-"]

\* The filter script is not running.
FilterOff ==
    /\ f_type = "csv" /\ f_nfiles = 0 /\ start_year = 0 /\ current_year = 0
    /\ f_pc = "off" /\ f_file = 0
    /\ year_col = <<>> /\ doi_col = <<>> /\ type_col = <<>>
    /\ f_rows_left = 0 /\ total_refs = 0 /\ cur = NoCur /\ request = <<>>
    /\ final_filtered = <<>> /\ filtered_entries = <<>> /\ file_stats = <<>>
    /\ total_found = 0 /\ total_filtered = 0 /\ publication_types = <<>>
    /\ output = <<>> /\ files_read = <<>> /\ lookups = 0 /\ since_sleep = 0
    /\ n_in_range = 0

\* The deduplication script is not running.
DedupOff ==
    /\ d_type = "csv" /\ d_nfiles = 0 /\ d_pc = "off" /\ d_file = 0
    /\ d_columns = <<>> /\ d_rows_left = 0 /\ file_total = 0
    /\ unique_entries = <<>> /\ duplicate_count = 0 /\ total_count = 0
    /\ file_entry_counts = <<>> /\ output_rows = <<>> /\ ingested = <<>>

DInit ==
    /\ FilterOff
    /\ d_type \in {"csv", "bib"}
    /\ d_nfiles \in 1..MaxFiles
    /\ d_pc = "files"
    /\ d_file = 0
    /\ d_columns = <<>>
    /\ d_rows_left = 0
    /\ file_total = 0
    /\ unique_entries = <<>>
    /\ duplicate_count = 0
    /\ total_count = 0
    /\ file_entry_counts = <<>>
    /\ output_rows = <<>>
    /\ ingested = <<>>

\* Lines 64-72: read the next CSV file, rename its columns, check them.
DedupReadCsv ==
    /\ d_pc = "files" /\ d_type = "csv" /\ d_file < d_nfiles
    /\ \E header \in CsvHeaders, n \in 0..(MaxRecords - total_count) :
          LET columns == normalize_columns(header)
          IN /\ d_file' = d_file + 1
             /\ d_columns' = columns
             /\ IF MissingRequiredColumns(columns)
                THEN /\ d_pc' = "exited"
                     /\ UNCHANGED <<d_rows_left, file_total>>
                ELSE /\ d_pc' = "rows"
                     /\ d_rows_left' = n
                     /\ file_total' = 0
    /\ UNCHANGED fvars
    /\ UNCHANGED <<d_type, d_nfiles, unique_entries, duplicate_count,
                   total_count, file_entry_counts, output_rows, ingested>>

\* Lines 73-80: one iteration over df.iterrows().
DedupCsvRow ==
    /\ d_pc = "rows" /\ d_type = "csv" /\ d_rows_left > 0
    /\ \E t \in CsvCells(TitleStrings), d \in CsvCells(DoiStrings) :
          Ingest(CsvRow(d_columns, t, d))
    /\ d_rows_left' = d_rows_left - 1
    /\ UNCHANGED fvars
    /\ UNCHANGED <<d_type, d_nfiles, d_pc, d_file, d_columns,
                   file_entry_counts, output_rows>>

\* Lines 89-95: load the next BibTeX file.
DedupReadBib ==
    /\ d_pc = "files" /\ d_type = "bib" /\ d_file < d_nfiles
    /\ \E n \in 0..(MaxRecords - total_count) :
          /\ d_file' = d_file + 1
          /\ d_rows_left' = n
          /\ file_total' = 0
          /\ d_pc' = "rows"
    /\ UNCHANGED fvars
    /\ UNCHANGED <<d_type, d_nfiles, d_columns, unique_entries, duplicate_count,
                   total_count, file_entry_counts, output_rows, ingested>>

\* Lines 96-103: one iteration over bib_database.entries.
DedupBibEntry ==
    /\ d_pc = "rows" /\ d_type = "bib" /\ d_rows_left > 0
    /\ \E present \in BibFieldSets, t \in BibFields(TitleStrings),
          d \in BibFields(DoiStrings) :
          Ingest(BibEntry(present, t, d))
    /\ d_rows_left' = d_rows_left - 1
    /\ UNCHANGED fvars
    /\ UNCHANGED <<d_type, d_nfiles, d_pc, d_file, d_columns,
                   file_entry_counts, output_rows>>

\* Lines 81 and 104: the per-file count, after the file's last row.
DedupEndFile ==
    /\ d_pc = "rows" /\ d_rows_left = 0
    /\ file_entry_counts' =
          Append(file_entry_counts, [file |-> d_file, count |-> file_total])
    /\ d_pc' = IF d_file < d_nfiles THEN "files" ELSE "summary"
    /\ UNCHANGED fvars
    /\ UNCHANGED <<d_type, d_nfiles, d_file, d_columns, d_rows_left, file_total,
                   unique_entries, duplicate_count, total_count, output_rows,
                   ingested>>

\* Lines 83-86, 106-112 and 114-136: the output file and the summary.
DedupWrite ==
    /\ d_pc = "summary"
    /\ output_rows' = [i \in 1..Len(unique_entries) |-> unique_entries[i].value]
    /\ d_pc' = "done"
    /\ UNCHANGED fvars
    /\ UNCHANGED <<d_type, d_nfiles, d_file, d_columns, d_rows_left, file_total,
                   unique_entries, duplicate_count, total_count,
                   file_entry_counts, ingested>>

DNext ==
    \/ DedupReadCsv
    \/ DedupCsvRow
    \/ DedupReadBib
    \/ DedupBibEntry
    \/ DedupEndFile
    \/ DedupWrite

SpecDedup == DInit /\ [][DNext]_vars

\* ------------------------------------------------------------------------
\* The filter script's steps
\* ------------------------------------------------------------------------
FInit ==
    /\ DedupOff
    /\ f_type \in {"csv", "bib"}
    /\ f_nfiles \in 1..MaxFiles
    /\ start_year \in StartYears
    /\ current_year \in CurrentYears
    /\ f_pc = "files" /\ f_file = 0
    /\ year_col = <<>> /\ doi_col = <<>> /\ type_col = <<>>
    /\ f_rows_left = 0 /\ total_refs = 0 /\ cur = NoCur /\ request = <<>>
    /\ final_filtered = <<>> /\ filtered_entries = <<>> /\ file_stats = <<>>
    /\ total_found = 0 /\ total_filtered = 0 /\ publication_types = <<>>
    /\ output = <<>> /\ files_read = <<>> /\ lookups = 0 /\ since_sleep = 0
    /\ n_in_range = 0

\* Rows iterated so far over all files (bounds the run).
RowsSoFar ==
    LET Sum[i \in 0..Len(files_read)] ==
            IF i = 0 THEN 0 ELSE Sum[i - 1] + files_read[i].total
    IN Sum[Len(files_read)]

\* Where the loop over the files goes after file number f.
AfterFile(f) == IF f < f_nfiles THEN "files" ELSE "write"

\* The call of get_publication_type(doi): the request of line 62 goes out
\* unless the function returns at line 53.
CallLookup(doi) ==
    /\ request' = IF doi = <<>> THEN request ELSE Append(request, CleanDoi(doi))
    /\ lookups' = lookups + 1
    /\ since_sleep' = since_sleep + 1
    /\ f_pc' = "request"

\* Lines 94-121: read the next CSV file and find its columns.
FilterReadCsv ==
    /\ f_pc = "files" /\ f_type = "csv" /\ f_file < f_nfiles
    /\ \E header \in FilterHeaders, n \in 0..(MaxRows - RowsSoFar) :
          LET ycol == FindColumn(header, "year")
          IN /\ f_file' = f_file + 1
             /\ year_col' = ycol
             /\ doi_col' = FindColumn(header, "doi")
             /\ type_col' = FindColumn(header, "type")
             /\ IF ycol = <<>>
                THEN /\ f_pc' = AfterFile(f_file + 1)
                     /\ UNCHANGED <<f_rows_left, total_refs, final_filtered,
                                    files_read>>
                ELSE /\ f_pc' = "rows"
                     /\ f_rows_left' = n
                     /\ total_refs' = n
                     /\ final_filtered' = <<>>
                     /\ files_read' =
                           Append(files_read, [file |-> f_file + 1, total |-> n])
    /\ UNCHANGED dvars
    /\ UNCHANGED <<f_type, f_nfiles, start_year, current_year, cur, request,
                   filtered_entries, file_stats, total_found, total_filtered,
                   publication_types, output, lookups, since_sleep, n_in_range>>

\* Lines 115, 119, 122-127: the next row of the file. A row whose year is
\* not in range is not in year_filtered and is not iterated.
\* `cur` names the row decided by this step in either case.
FilterCsvRow ==
    /\ f_pc = "rows" /\ f_type = "csv" /\ f_rows_left > 0
    /\ \E y \in CsvCells(CsvYearStrings), d \in CsvCells(CsvDoiStrings),
          t \in CsvCells(CsvTypeStrings) :
          LET header == {c \in {year_col, doi_col, type_col} : c # <<>>}
              row == [c \in header |->
                         CASE c = year_col -> y [] c = doi_col -> d [] c = type_col -> t]
              inr == CsvYearInRange(ToNumeric(row[year_col]), start_year, current_year)
              has_doi == doi_col # <<>> /\ ~ IsNa(row[doi_col])
          IN /\ cur' = [file |-> f_file, row |-> total_refs - f_rows_left + 1,
                        entry |-> row, in_range |-> inr,
                        pub_type |-> IF inr THEN "Unknown" ELSE "-",
                        outcome |-> "-", fallback |-> FALSE, tallied |-> "-"]
             /\ n_in_range' = IF inr THEN n_in_range + 1 ELSE n_in_range
             /\ IF inr /\ has_doi
                THEN CallLookup(Str(row[doi_col]))
                ELSE /\ f_pc' = IF inr THEN "classify" ELSE "rows"
                     /\ UNCHANGED <<request, lookups, since_sleep>>
    /\ f_rows_left' = f_rows_left - 1
    /\ UNCHANGED dvars
    /\ UNCHANGED <<f_type, f_nfiles, start_year, current_year, f_file, year_col,
                   doi_col, type_col, total_refs, final_filtered,
                   filtered_entries, file_stats, total_found, total_filtered,
                   publication_types, output, files_read>>

\* Line 127: get_publication_type returns, or an exception leaves it.
FilterCsvLookupReturn ==
    /\ f_pc = "request" /\ f_type = "csv"
    /\ \E resp \in Responses :
          LET r == get_publication_type(Str(cur.entry[doi_col]), resp)
          IN IF r.raised
             THEN /\ f_pc' = "crashed"
                  /\ cur' = [cur EXCEPT !.outcome = resp.k]
             ELSE /\ f_pc' = AfterLookup(f_type)
                  /\ cur' = [cur EXCEPT !.outcome = resp.k, !.pub_type = r.value]
    /\ request' = <<>>
    /\ UNCHANGED dvars
    /\ UNCHANGED <<f_type, f_nfiles, start_year, current_year, f_file, year_col,
                   doi_col, type_col, f_rows_left, total_refs, final_filtered,
                   filtered_entries, file_stats, total_found, total_filtered,
                   publication_types, output, files_read, lookups, since_sleep,
                   n_in_range>>

\* Lines 128 and 191: time.sleep(0.5).
FilterSleep ==
    /\ f_pc = "sleep"
    /\ since_sleep' = 0
    /\ f_pc' = IF f_type = "csv" THEN "classify" ELSE "rows"
    /\ UNCHANGED dvars
    /\ UNCHANGED <<f_type, f_nfiles, start_year, current_year, f_file, year_col,
                   doi_col, type_col, f_rows_left, total_refs, cur, request,
                   final_filtered, filtered_entries, file_stats, total_found,
                   total_filtered, publication_types, output, files_read,
                   lookups, n_in_range>>

\* Lines 130-141: the type column, the tally, the append.
FilterCsvClassify ==
    /\ f_pc = "classify" /\ f_type = "csv"
    /\ LET use_type == /\ cur.pub_type = "Unknown"
                       /\ type_col # <<>>
                       /\ ~ IsNa(cur.entry[type_col])
           pub_type == IF use_type
                       THEN FallbackType(cur.pub_type,
                                         LowerStr(Str(cur.entry[type_col])))
                       ELSE cur.pub_type
       IN /\ publication_types' = Tally(publication_types, pub_type)
          /\ cur' = [cur EXCEPT !.pub_type = pub_type,
                                !.fallback = use_type /\ pub_type # cur.pub_type,
                                !.tallied = pub_type]
          /\ final_filtered' =
                IF Included(pub_type)
                THEN Append(final_filtered,
                            [file |-> cur.file, row |-> cur.row,
                             publication_type |-> "-"])
                ELSE final_filtered
    /\ f_pc' = "rows"
    /\ UNCHANGED dvars
    /\ UNCHANGED <<f_type, f_nfiles, start_year, current_year, f_file, year_col,
                   doi_col, type_col, f_rows_left, total_refs, request,
                   filtered_entries, file_stats, total_found, total_filtered,
                   output, files_read, lookups, since_sleep, n_in_range>>

\* Lines 166-175: load the next BibTeX file.
FilterReadBib ==
    /\ f_pc = "files" /\ f_type = "bib" /\ f_file < f_nfiles
    /\ \E n \in 0..(MaxRows - RowsSoFar) :
          /\ f_file' = f_file + 1
          /\ f_rows_left' = n
          /\ total_refs' = n
          /\ final_filtered' = <<>>
          /\ files_read' = Append(files_read, [file |-> f_file + 1, total |-> n])
    /\ f_pc' = "rows"
    /\ UNCHANGED dvars
    /\ UNCHANGED <<f_type, f_nfiles, start_year, current_year, year_col, doi_col,
                   type_col, cur, request, filtered_entries, file_stats,
                   total_found, total_filtered, publication_types, output,
                   lookups, since_sleep, n_in_range>>

\* Lines 176-183 and 192-196: the next entry, up to the lookup call.
FilterBibEntry ==
    /\ f_pc = "rows" /\ f_type = "bib" /\ f_rows_left > 0
    /\ \E y \in BibOptional(BibYearStrings), d \in BibOptional(BibDoiStrings),
          t \in BibOptional(BibTypeStrings) :
          LET entry == FilterBibEntryOf(y, d, t)
              year == ParseInt(Str(Get(entry, F_year)))
              inr == year.ok /\ BibYearInRange(year.val, start_year, current_year)
              doi == Str(Get(entry, F_doi))
              me == [file |-> f_file, row |-> total_refs - f_rows_left + 1,
                     entry |-> entry, in_range |-> inr, pub_type |-> "-",
                     outcome |-> "-", fallback |-> FALSE, tallied |-> "-"]
          IN /\ n_in_range' = IF inr THEN n_in_range + 1 ELSE n_in_range
             /\ IF inr /\ doi # <<>>
                THEN /\ cur' = me
                     /\ CallLookup(doi)
                     /\ UNCHANGED publication_types
                ELSE IF inr
                THEN /\ cur' = [me EXCEPT !.pub_type = NoDoiLabel,
                                          !.tallied = NoDoiLabel]
                     /\ publication_types' = Tally(publication_types, NoDoiLabel)
                     /\ f_pc' = "rows"
                     /\ UNCHANGED <<request, lookups, since_sleep>>
                ELSE /\ cur' = me
                     /\ f_pc' = "rows"
                     /\ UNCHANGED <<request, lookups, since_sleep,
                                    publication_types>>
    /\ f_rows_left' = f_rows_left - 1
    /\ UNCHANGED dvars
    /\ UNCHANGED <<f_type, f_nfiles, start_year, current_year, f_file, year_col,
                   doi_col, type_col, total_refs, final_filtered,
                   filtered_entries, file_stats, total_found, total_filtered,
                   output, files_read>>

\* Lines 183-189: get_publication_type returns (or an exception leaves it),
\* the tally, the append.
FilterBibLookupReturn ==
    /\ f_pc = "request" /\ f_type = "bib"
    /\ \E resp \in Responses :
          LET r == get_publication_type(Str(Get(cur.entry, F_doi)), resp)
          IN IF r.raised
             THEN /\ f_pc' = "crashed"
                  /\ cur' = [cur EXCEPT !.outcome = resp.k]
                  /\ UNCHANGED <<publication_types, final_filtered>>
             ELSE /\ f_pc' = AfterLookup(f_type)
                  /\ cur' = [cur EXCEPT !.outcome = resp.k, !.pub_type = r.value,
                                        !.tallied = r.value]
                  /\ publication_types' = Tally(publication_types, r.value)
                  /\ final_filtered' =
                        IF Included(r.value)
                        THEN Append(final_filtered,
                                    [file |-> cur.file, row |-> cur.row,
                                     publication_type |-> r.value])
                        ELSE final_filtered
    /\ request' = <<>>
    /\ UNCHANGED dvars
    /\ UNCHANGED <<f_type, f_nfiles, start_year, current_year, f_file, year_col,
                   doi_col, type_col, f_rows_left, total_refs, filtered_entries,
                   file_stats, total_found, total_filtered, output, files_read,
                   lookups, since_sleep, n_in_range>>

\* Lines 145-154 and 200-208: whether the file's counters are recorded.
RecordsFile(filtered_refs) == filtered_refs > 0

\* Lines 143-154 and 198-208: the end of a file. The loop variable is dead
\* after the loop.
FilterEndFile ==
    /\ f_pc = "rows" /\ f_rows_left = 0
    /\ LET filtered_refs == Len(final_filtered)
       IN IF RecordsFile(filtered_refs)
          THEN /\ filtered_entries' =
                     IF f_type = "csv"
                     THEN Append(filtered_entries, final_filtered)
                     ELSE filtered_entries \o final_filtered
               /\ file_stats' =
                     Append(file_stats,
                            [file |-> f_file, total |-> total_refs,
                             filtered |-> filtered_refs,
                             ignored |-> total_refs - filtered_refs])
               /\ total_found' = total_found + total_refs
               /\ total_filtered' = total_filtered + filtered_refs
          ELSE UNCHANGED <<filtered_entries, file_stats, total_found,
                           total_filtered>>
    /\ f_pc' = AfterFile(f_file)
    /\ cur' = NoCur
    /\ UNCHANGED dvars
    /\ UNCHANGED <<f_type, f_nfiles, start_year, current_year, f_file, year_col,
                   doi_col, type_col, f_rows_left, total_refs, request,
                   final_filtered, publication_types, output, files_read,
                   lookups, since_sleep, n_in_range>>

\* pd.concat(filtered_entries, ignore_index=True)
RECURSIVE Concat(_)
Concat(frames) ==
    IF frames = <<>> THEN <<>> ELSE Head(frames) \o Concat(Tail(frames))

\* Lines 156-163, 210-220 and 222-256: the output file and the summary, or
\* the exit when nothing was kept.
FilterWrite ==
    /\ f_pc = "write"
    /\ IF filtered_entries # <<>>
       THEN /\ output' = IF f_type = "csv" THEN Concat(filtered_entries)
                         ELSE filtered_entries
            /\ f_pc' = "done"
       ELSE /\ f_pc' = "nomatch"
            /\ UNCHANGED output
    /\ UNCHANGED dvars
    /\ UNCHANGED <<f_type, f_nfiles, start_year, current_year, f_file, year_col,
                   doi_col, type_col, f_rows_left, total_refs, cur, request,
                   final_filtered, filtered_entries, file_stats, total_found,
                   total_filtered, publication_types, files_read, lookups,
                   since_sleep, n_in_range>>

FNext ==
    \/ FilterReadCsv
    \/ FilterCsvRow
    \/ FilterCsvLookupReturn
    \/ FilterSleep
    \/ FilterCsvClassify
    \/ FilterReadBib
    \/ FilterBibEntry
    \/ FilterBibLookupReturn
    \/ FilterEndFile
    \/ FilterWrite

SpecFilter == FInit /\ [][FNext]_vars

\* ------------------------------------------------------------------------
\* Properties of the filter script
\* ------------------------------------------------------------------------
\* The iteration of `cur` is over: nothing more happens to it.
RecordDone == f_pc = "rows" /\ cur # NoCur

\* `cur` is in the list of kept rows / entries of its file.
CurKept ==
    \E i \in 1..Len(final_filtered) :
        final_filtered[i].file = cur.file /\ final_filtered[i].row = cur.row

\* The text of the year field of `cur`.
CurYearText ==
    IF f_type = "csv" THEN Str(cur.entry[year_col]) ELSE Str(Get(cur.entry, F_year))

\* `cur` has no DOI: no DOI column or an empty cell (CSV), no field or an
\* empty one (BibTeX).
CurNoDoi ==
    IF f_type = "csv"
    THEN doi_col = <<>> \/ IsNa(cur.entry[doi_col])
    ELSE Str(Get(cur.entry, F_doi)) = <<>>

\* `cur` has a free-text type field.
CurHasType ==
    IF f_type = "csv"
    THEN type_col # <<>> /\ ~ IsNa(cur.entry[type_col])
    ELSE F_type \in DOMAIN cur.entry

CurTypeText ==
    IF f_type = "csv" THEN Str(cur.entry[type_col]) ELSE Str(Get(cur.entry, F_type))

\* The type text says conference or proceeding, and neither journal nor
\* article, whatever the case of the letters.
CurTypeSaysConference ==
    /\ CurHasType
    /\ LET t == LowerStr(CurTypeText)
       IN /\ Contains(t, S_conference) \/ Contains(t, S_proceeding)
          /\ ~ Contains(t, S_journal)
          /\ ~ Contains(t, S_article)

\* C3 (as claimed): a row / entry is kept iff its final category is
\* Original Research or Conference Paper and its year parses to an integer
\* in [start_year, current_year].
C3_KeptIffTypeAndIntegerYearInRange ==
    RecordDone =>
        (CurKept <=>
            /\ Included(cur.pub_type)
            /\ ParseInt(CurYearText).ok
            /\ start_year <= ParseInt(CurYearText).val
            /\ ParseInt(CurYearText).val <= current_year)

\* C4 (as claimed): in both paths, an in-range row / entry without a DOI
\* whose type text says conference is classified Conference Paper by the
\* type text and kept.
C4_FallbackInBothPaths ==
    (RecordDone /\ cur.in_range /\ CurNoDoi /\ CurTypeSaysConference)
        => (cur.pub_type = "Conference Paper" /\ cur.fallback /\ CurKept)

\* C4 (amended): that holds of a CSV row; a BibTeX entry without a DOI is
\* never classified by its type text: it is counted as No DOI and dropped.
C4_FallbackInCsvOnly ==
    (RecordDone /\ cur.in_range /\ CurNoDoi /\ CurTypeSaysConference)
        => IF f_type = "csv"
           THEN cur.pub_type = "Conference Paper" /\ cur.fallback /\ CurKept
           ELSE cur.pub_type = "No DOI" /\ ~ cur.fallback /\ ~ CurKept

\* C4 witness: a CSV row without a DOI, kept as a Conference Paper on the
\* word of its type cell.
C4_Witness ==
    /\ RecordDone /\ f_type = "csv" /\ cur.in_range /\ CurNoDoi
    /\ CurTypeSaysConference
    /\ cur.pub_type = "Conference Paper" /\ cur.fallback /\ CurKept

\* The row / entry was counted under `label`, and under nothing else.
CurTalliedAs(label) ==
    /\ cur.tallied = label
    /\ label \in DOMAIN publication_types
    /\ publication_types[label] >= 1

\* C5 (as claimed): in both paths, an in-range row / entry with no DOI and
\* no usable type field is counted under No DOI and is not kept.
C5_NoDoiInBothPaths ==
    (RecordDone /\ cur.in_range /\ CurNoDoi /\ ~ CurHasType)
        => (cur.pub_type = "No DOI" /\ CurTalliedAs("No DOI") /\ ~ CurKept)

\* C5 (amended): an in-range BibTeX entry with no DOI is counted under
\* No DOI and is not kept; an in-range CSV row with no DOI and no usable
\* type cell is counted under Unknown and is not kept.
C5_NoDoiInBibUnknownInCsv ==
    /\ (RecordDone /\ cur.in_range /\ CurNoDoi /\ f_type = "bib")
          => (cur.pub_type = "No DOI" /\ CurTalliedAs("No DOI") /\ ~ CurKept)
    /\ (RecordDone /\ cur.in_range /\ CurNoDoi /\ ~ CurHasType /\ f_type = "csv")
          => (cur.pub_type = "Unknown" /\ CurTalliedAs("Unknown") /\ ~ CurKept)

\* C5 witness: a CSV row with neither DOI nor type, counted as Unknown.
C5_Witness ==
    /\ RecordDone /\ f_type = "csv" /\ cur.in_range /\ CurNoDoi /\ ~ CurHasType
    /\ CurTalliedAs("Unknown") /\ ~ CurKept

\* C6 (as claimed): at the end of a run every file whose records were read
\* has its FileStats entry, and total_found is the number of records of
\* all those files.
C6_EveryFileCounted ==
    f_pc = "done" =>
        /\ \A i \in 1..Len(files_read) :
              \E j \in 1..Len(file_stats) : file_stats[j].file = files_read[i].file
        /\ total_found = RowsSoFar

\* Outcomes of the request in which the lookup fails.
FailedLookup ==
    {"request_exception", "not_json", "no_message", "no_type", "type_null"}

\* C7 (as claimed): no outcome of a lookup stops the run, and a lookup that
\* fails (transport, malformed response, missing key) gives Unknown.
C7_NoLookupOutcomeAborts ==
    /\ f_pc # "crashed"
    /\ (f_pc = "sleep" /\ cur.outcome \in FailedLookup) => cur.pub_type = "Unknown"

\* C9: a sleep separates any two calls of get_publication_type, and at most
\* one request is in flight.
C9_SleepBetweenLookups ==
    /\ since_sleep <= 1
    /\ Len(request) <= 1
    /\ f_pc = "request" => since_sleep = 1
    /\ f_pc = "sleep" => since_sleep = 1 /\ request = <<>>

\* C9 witness: a run that made two lookups and ended.
C9_Witness == f_pc = "done" /\ lookups >= 2

\* Sum of the counts of the tally.
RECURSIVE SumOver(_, _)
SumOver(types, keys) ==
    IF keys = {} THEN 0
    ELSE LET k == CHOOSE x \in keys : TRUE
         IN types[k] + SumOver(types, keys \ {k})

TallyTotal == SumOver(publication_types, DOMAIN publication_types)
TallyOf(label) ==
    IF label \in DOMAIN publication_types THEN publication_types[label] ELSE 0

\* Rows / entries kept so far.
KeptCount ==
    (IF f_type = "csv" THEN Len(Concat(filtered_entries)) ELSE Len(filtered_entries))
    + (IF f_pc = "rows" THEN Len(final_filtered) ELSE 0)

\* No row / entry is half way through its iteration.
BetweenRecords == f_pc \in {"files", "rows", "write", "done", "nomatch"}

FirstWith(j) ==
    CHOOSE i \in 1..j :
        /\ ingested[i].key = ingested[j].key
        /\ \A h \in 1..(i - 1) : ingested[h].key # ingested[j].key

\* C1: after every iteration of the loops, over any number of files,
\* duplicate_count + len(unique_entries) = total_count.
C1_CountsBalance ==
    /\ duplicate_count + Len(unique_entries) = total_count
    /\ total_count = Len(ingested)

\* C1 witness: a second file has been read, at least one row was a duplicate
\* and two keys are stored.
C1_Witness ==
    /\ d_file = 2 /\ d_pc = "done"
    /\ duplicate_count >= 1 /\ Len(unique_entries) >= 2

\* C2: first write wins. In every state, the value stored under the key of
\* any row iterated so far is the first row iterated with that key, so no
\* later row with the same key ever replaces it.
C2_FirstWriteWins ==
    \A j \in 1..Len(ingested) :
        /\ HasKey(unique_entries, ingested[j].key)
        /\ Lookup(unique_entries, ingested[j].key) = ingested[FirstWith(j)].row

\* C2 witness: two different rows with the same key were iterated, and the
\* earlier one is the one stored and written out.
C2_Witness ==
    /\ d_pc = "done"
    /\ \E i, j \in 1..Len(ingested) :
          /\ i < j
          /\ ingested[i].row # ingested[j].row
          /\ ingested[i].key = ingested[j].key
          /\ FirstWith(j) = i
          /\ \E o \in 1..Len(output_rows) : output_rows[o] = ingested[i].row
          /\ ~ \E o \in 1..Len(output_rows) : output_rows[o] = ingested[j].row

\* A key field that is absent from the row, or present and empty (an empty
\* string, or the NaN of an empty CSV cell).
AbsentOrEmpty(row, field) ==
    \/ field \notin DOMAIN row
    \/ IsNa(row[field])
    \/ row[field] = StrV(<<>>)

\* C8 (as claimed): a key field that is absent or empty contributes the
\* empty string to the key of the row.
C8_EmptyFieldGivesEmptyComponent ==
    \A j \in 1..Len(ingested) : \A f \in 1..Len(REQUIRED_FIELDS) :
        AbsentOrEmpty(ingested[j].row, REQUIRED_FIELDS[f])
            => ingested[j].key[f] = <<>>

====
